---------------------------- MODULE Spec2Model ----------------------------
(***************************************************************************)
(* ASCVD pooled-cohort risk calculator (src/ascvd.py).                     *)
(*                                                                         *)
(* The program is one pure function, calculate_ascvd_risk, behind one      *)
(* route, POST /calculate-ascvd-risk.  Every call owns a frame of local    *)
(* variables; the model keeps one frame per call and moves each call       *)
(* through the function's steps: range validation, the logarithmic         *)
(* transform, the race/sex branch and the output step.                     *)
(*                                                                         *)
(* Python floats are modelled as decimal fixed-point numbers with six      *)
(* fractional digits (the integer v stands for v / ONE).  Products are     *)
(* rounded to the nearest unit; math.log, math.exp and ** are computed by  *)
(* range reduction and power series, math.log with two guard digits.  The  *)
(* value the function returns, round(risk * 1000) / 10, is kept as the     *)
(* integer round(risk * 1000), i.e. in tenths of a percent.                *)
(* On the sampled inputs the modelled predict - mnxb is within 8e-6 and the *)
(* modelled risk within 3e-6 of the values CPython computes.               *)
(***************************************************************************)
EXTENDS Integers, Sequences, FiniteSets, TLC

(***************************************************************************)
(* Fixed-point arithmetic                                                  *)
(***************************************************************************)
ONE == 1000 * 1000          \* scale of a modelled float
LIMB == 1000                \* ONE = LIMB * LIMB
HI == 10000 * 10000         \* scale used inside Ln (two guard digits)
HILIMB == 10000             \* HI = HILIMB * HILIMB

Abs(a) == IF a < 0 THEN -a ELSE a

Sgn(a) == IF a < 0 THEN -1 ELSE 1

\* round(a * b / B^2) for a, b >= 0, computed limb-wise so that no
\* intermediate exceeds 32 bits
MulLimb(a, b, B) ==
    LET ah == a \div B
        al == a % B
        bh == b \div B
        bl == b % B
        mid == ah * bl + al * bh
        low == (al * bl) \div B
    IN  ah * bh + (mid + low + B \div 2) \div B

\* float product a * b
MulFix(a, b) == Sgn(a) * Sgn(b) * MulLimb(Abs(a), Abs(b), LIMB)

\* product at the scale HI (operands in [0, 21))
MulHi(a, b) == MulLimb(a, b, HILIMB)

\* floor(a * S / b) by long division for 0 <= a < b < 4 * HI and S a product
\* of 2s and 5s, one digit in base 5 or 2 at a time (a * 5 stays in 32 bits)
RECURSIVE DivDigits(_, _, _)
DivDigits(a, b, S) ==
    IF S = 1 THEN 0
    ELSE LET d == IF S % 5 = 0 THEN 5 ELSE 2
             q == (a * d) \div b
             r == (a * d) % b
         IN  q * (S \div d) + DivDigits(r, b, S \div d)

\* quotient a / b at the scale HI, for 0 <= a < b
DivHi(a, b) == DivDigits(a, b, HI)

(***************************************************************************)
(* math.log, math.exp and ** on modelled floats                            *)
(***************************************************************************)
LN2HI == 69314718           \* ln 2 at the scale HI

\* the k with 2^k <= n < 2^(k+1), for an integer n >= 1
RECURSIVE Log2Floor(_)
Log2Floor(n) == IF n < 2 THEN 0 ELSE 1 + Log2Floor(n \div 2)

RECURSIVE Pow2(_)
Pow2(k) == IF k = 0 THEN 1 ELSE 2 * Pow2(k - 1)

\* sum over j >= k of z^(2j+1) / (2j+1), zp = z^(2k+1), at the scale HI
RECURSIVE AtanhSeries(_, _, _)
AtanhSeries(zp, z2, k) ==
    IF zp = 0 THEN 0
    ELSE zp \div (2 * k + 1) + AtanhSeries(MulHi(zp, z2), z2, k + 1)

\* ln m at the scale HI for a mantissa m in [1, 2) at the scale HI:
\* ln m = 2 atanh((m - 1) / (m + 1))
LnMant(m) ==
    LET z == DivHi(m - HI, m + HI)
    IN  2 * AtanhSeries(z, MulHi(z, z), 0)

\* ln(p / q) at the scale HI, for integers p, q >= 1 with q a divisor of HI
\* and p / q < 2^9: p / q = 2^k * m
LnRatioHi(p, q) ==
    LET k == Log2Floor(p) - Log2Floor(q)
        \* p / (q * 2^k), which may still lie in [1/2, 1) or [1, 2)
        m0 == IF k >= 0 THEN p * ((HI \div q) \div Pow2(k))
                        ELSE p * (HI \div q) * Pow2(-k)
        k1 == IF m0 < HI THEN k - 1 ELSE k
        m == IF m0 < HI THEN 2 * m0 ELSE m0
    IN  k1 * LN2HI + LnMant(m)

\* a value at the scale HI rounded to a modelled float
FromHi(v) == Sgn(v) * ((Abs(v) + 50) \div 100)

\* math.log(n) for an integer n >= 1
Log(n) == FromHi(LnRatioHi(n, 1))

LN2 == 693147               \* ln 2 as a modelled float; LN2HI = 100 * LN2 + 18
EXPSAT == 7 * ONE           \* largest argument whose exponential is represented

\* sum over j >= n of r^j / j!, term = r^n / n!, at the scale HI
RECURSIVE ExpSeries(_, _, _)
ExpSeries(term, r, n) ==
    IF term = 0 THEN 0
    ELSE term + ExpSeries(MulHi(term, r) \div (n + 1), r, n + 1)

\* v * 2^k / 100 rounded, for v >= 0 at the scale HI: a modelled float
ScaleFromHi(v, k) ==
    IF k >= 0
    THEN (v \div 100) * Pow2(k) + ((v % 100) * Pow2(k) + 50) \div 100
    ELSE IF -k > 30 THEN 0
    ELSE ((v \div Pow2(-k)) + 50) \div 100

\* math.exp(x): x = k ln 2 + r with 0 <= r < ln 2, exp(x) = 2^k exp(r).
\* An argument above EXPSAT yields exp(EXPSAT): the only use of so large a
\* value is as an exponent of s010 < 1, and s010 ** exp(7) is already 0 at
\* the precision of a modelled float.
Exp(x) ==
    LET xs == IF x > EXPSAT THEN EXPSAT ELSE x
        k0 == IF xs >= 0 THEN xs \div LN2 ELSE -((-xs + LN2 - 1) \div LN2)
        r0 == (xs - k0 * LN2) * 100 - k0 * 18
        k == IF r0 < 0 THEN k0 - 1 ELSE k0
        r == IF r0 < 0 THEN r0 + LN2HI ELSE r0
    IN  ScaleFromHi(ExpSeries(HI, r, 0), k)

\* s ** e for modelled floats 0 < s < 1 and e >= 0: exp(e * ln s)
Pow(s, e) ==
    LET lns == -LnRatioHi(s, ONE)
    IN  Exp(-MulLimb(e, lns, HILIMB))

\* round(v) for a modelled float v: Python 3 rounds halves to even
Round(v) ==
    LET a == Abs(v)
        q == a \div ONE
        f == a % ONE
        n == IF 2 * f > ONE \/ (2 * f = ONE /\ q % 2 = 1) THEN q + 1 ELSE q
    IN  Sgn(v) * n

\* float literals of the source with 2, 3, 4 and 5 decimals
Dec2(n) == n * (ONE \div 100)

Dec3(n) == n * (ONE \div 1000)

Dec4(n) == n * (ONE \div 10000)

Dec5(n) == n * (ONE \div 100000)

(***************************************************************************)
(* Bounds of the model                                                     *)
(***************************************************************************)
NumCalls == 3               \* calls that may be in flight together
GridSteps == 2              \* each formula input is sampled at GridSteps + 1
                            \* points of its range, both ends included

(***************************************************************************)
(* Input ranges (calculate_ascvd_risk, "Validate input ranges")            *)
(***************************************************************************)
AgeMin == 40
AgeMax == 79
SbpMin == 90
SbpMax == 200
DbpMin == 60
DbpMax == 130
CholMin == 130
CholMax == 320
HdlMin == 20
HdlMax == 100
LdlMin == 30
LdlMax == 300

\* the points of [lo, hi] the model samples
Grid(lo, hi) == { lo + (k * (hi - lo)) \div GridSteps : k \in 0..GridSteps }

\* a sampled field and the two values just outside its range
Probe(lo, hi) == { lo - 1, hi + 1 } \cup Grid(lo, hi)

\* a field the formula never reads: both ends and the values just outside
Edge(lo, hi) == { lo - 1, lo, hi, hi + 1 }

\* ASCVDInput: the request body
Inputs ==
    [ is_male : BOOLEAN, is_black : BOOLEAN, smoker : BOOLEAN,
      hypertensive : BOOLEAN, diabetic : BOOLEAN,
      age : Probe(AgeMin, AgeMax),
      systolic_bp : Probe(SbpMin, SbpMax),
      diastolic_bp : Edge(DbpMin, DbpMax),
      total_cholesterol : Probe(CholMin, CholMax),
      hdl : Probe(HdlMin, HdlMax),
      ldl : Edge(LdlMin, LdlMax) ]

NoInput ==
    [ is_male |-> FALSE, is_black |-> FALSE, smoker |-> FALSE,
      hypertensive |-> FALSE, diabetic |-> FALSE, age |-> 0,
      systolic_bp |-> 0, diastolic_bp |-> 0, total_cholesterol |-> 0,
      hdl |-> 0, ldl |-> 0 ]

\* the sampled inputs that pass validation
RiskInputs ==
    [ is_male : BOOLEAN, is_black : BOOLEAN, smoker : BOOLEAN,
      hypertensive : BOOLEAN, diabetic : BOOLEAN,
      age : Grid(AgeMin, AgeMax),
      systolic_bp : Grid(SbpMin, SbpMax),
      diastolic_bp : { DbpMin, DbpMax },
      total_cholesterol : Grid(CholMin, CholMax),
      hdl : Grid(HdlMin, HdlMax),
      ldl : { LdlMin, LdlMax } ]

\* one patient, of the given sex and age
Patient(m, a) ==
    [ is_male |-> m, is_black |-> FALSE, smoker |-> TRUE,
      hypertensive |-> FALSE, diabetic |-> FALSE, age |-> a,
      systolic_bp |-> SbpMax, diastolic_bp |-> DbpMin,
      total_cholesterol |-> CholMax, hdl |-> HdlMin, ldl |-> LdlMin ]

\* the requests of the concurrent specification: a man just below the
\* minimum age, a man of the minimum age and a woman of the maximum age
ConcInputs ==
    { Patient(TRUE, AgeMin - 1), Patient(TRUE, AgeMin), Patient(FALSE, AgeMax) }

(***************************************************************************)
(* Validation (lines 36-48)                                                *)
(***************************************************************************)
\* The detail strings of the HTTPExceptions, as their sequences of words
AgeDetail == << "Age", "must", "be", "between", "40", "and", "79", "." >>

SbpDetail ==
    << "Systolic", "BP", "must", "be", "between", "90", "and", "200", "mmHg", "." >>

DbpDetail ==
    << "Diastolic", "BP", "must", "be", "between", "60", "and", "130", "mmHg", "." >>

CholDetail ==
    << "Total", "cholesterol", "must", "be", "between", "130", "and", "320",
       "mg/dL", "." >>

\* faulty variant of HdlDetail: the range of another message pasted in
HdlDetailWrongRange ==
    << "HDL", "cholesterol", "must", "be", "between", "30", "and", "300",
       "mg/dL", "." >>

HdlDetail ==
    << "HDL", "cholesterol", "must", "be", "between", "20", "and", "100",
       "mg/dL", "." >>

LdlDetail ==
    << "LDL", "cholesterol", "must", "be", "between", "30", "and", "300",
       "mg/dL", "." >>

NoDetail == << >>

\* faulty variant of ValidationDetail: the lower bound of age excluded
ValidationDetailStrict(in) ==
    IF ~(AgeMin < in.age /\ in.age <= AgeMax) THEN AgeDetail
    ELSE IF ~(SbpMin <= in.systolic_bp /\ in.systolic_bp <= SbpMax) THEN SbpDetail
    ELSE IF ~(DbpMin <= in.diastolic_bp /\ in.diastolic_bp <= DbpMax) THEN DbpDetail
    ELSE IF ~(CholMin <= in.total_cholesterol /\ in.total_cholesterol <= CholMax)
         THEN CholDetail
    ELSE IF ~(HdlMin <= in.hdl /\ in.hdl <= HdlMax) THEN HdlDetail
    ELSE IF ~(LdlMin <= in.ldl /\ in.ldl <= LdlMax) THEN LdlDetail
    ELSE NoDetail

\* faulty variant of ValidationDetail: ldl checked before hdl
ValidationDetailLdlFirst(in) ==
    IF ~(AgeMin <= in.age /\ in.age <= AgeMax) THEN AgeDetail
    ELSE IF ~(SbpMin <= in.systolic_bp /\ in.systolic_bp <= SbpMax) THEN SbpDetail
    ELSE IF ~(DbpMin <= in.diastolic_bp /\ in.diastolic_bp <= DbpMax) THEN DbpDetail
    ELSE IF ~(CholMin <= in.total_cholesterol /\ in.total_cholesterol <= CholMax)
         THEN CholDetail
    ELSE IF ~(LdlMin <= in.ldl /\ in.ldl <= LdlMax) THEN LdlDetail
    ELSE IF ~(HdlMin <= in.hdl /\ in.hdl <= HdlMax) THEN HdlDetail
    ELSE NoDetail

\* the detail of the HTTPException the checks raise, NoDetail when all pass
ValidationDetail(in) ==
    IF ~(AgeMin <= in.age /\ in.age <= AgeMax) THEN AgeDetail
    ELSE IF ~(SbpMin <= in.systolic_bp /\ in.systolic_bp <= SbpMax) THEN SbpDetail
    ELSE IF ~(DbpMin <= in.diastolic_bp /\ in.diastolic_bp <= DbpMax) THEN DbpDetail
    ELSE IF ~(CholMin <= in.total_cholesterol /\ in.total_cholesterol <= CholMax)
         THEN CholDetail
    ELSE IF ~(HdlMin <= in.hdl /\ in.hdl <= HdlMax) THEN HdlDetail
    ELSE IF ~(LdlMin <= in.ldl /\ in.ldl <= LdlMax) THEN LdlDetail
    ELSE NoDetail

(***************************************************************************)
(* Logarithmic calculations (lines 50-60)                                  *)
(***************************************************************************)
\* math.log raises ValueError on an argument that is not positive
LogDefined(in) == in.age > 0 /\ in.total_cholesterol > 0 /\ in.hdl > 0
                  /\ in.systolic_bp > 0

NoLogs ==
    [ ln_age |-> 0, ln_total_chol |-> 0, ln_hdl |-> 0, tr_ln_sbp |-> 0,
      nt_ln_sbp |-> 0, age_total_chol |-> 0, age_hdl |-> 0, age_tr_sbp |-> 0,
      age_nt_sbp |-> 0, age_smoke |-> 0 ]

\* the locals of lines 51-60, given the five logarithms
LogLocals(in, ln_age, ln_total_chol, ln_hdl, tr_ln_sbp, nt_ln_sbp) ==
    [ ln_age |-> ln_age,
      ln_total_chol |-> ln_total_chol,
      ln_hdl |-> ln_hdl,
      tr_ln_sbp |-> tr_ln_sbp,
      nt_ln_sbp |-> nt_ln_sbp,
      age_total_chol |-> MulFix(ln_age, ln_total_chol),
      age_hdl |-> MulFix(ln_age, ln_hdl),
      age_tr_sbp |-> MulFix(ln_age, tr_ln_sbp),
      age_nt_sbp |-> MulFix(ln_age, nt_ln_sbp),
      age_smoke |-> IF in.smoker THEN ln_age ELSE 0 ]

\* faulty variant of Logs: ln_hdl taken from ldl
LogsLdl(in) ==
    LogLocals(in, Log(in.age), Log(in.total_cholesterol), Log(in.ldl),
              IF in.hypertensive THEN Log(in.systolic_bp) ELSE 0,
              IF in.hypertensive THEN 0 ELSE Log(in.systolic_bp))

\* faulty variant of Logs: nt_ln_sbp set whether hypertensive or not
LogsBothSbp(in) ==
    LogLocals(in, Log(in.age), Log(in.total_cholesterol), Log(in.hdl),
              IF in.hypertensive THEN Log(in.systolic_bp) ELSE 0,
              Log(in.systolic_bp))

Logs(in) ==
    LogLocals(in, Log(in.age), Log(in.total_cholesterol), Log(in.hdl),
              IF in.hypertensive THEN Log(in.systolic_bp) ELSE 0,
              IF in.hypertensive THEN 0 ELSE Log(in.systolic_bp))

(***************************************************************************)
(* Race and gender-based calculation (lines 62-120)                        *)
(*                                                                         *)
(* A predictor is the sequence of its summands in source order, each a     *)
(* pair <<coefficient, factor>>.  The factor names a local variable, or    *)
(* "ln_age**2", or a flag: "smoker" in (0.6908 if smoker else 0) has the   *)
(* value 1 or 0.                                                           *)
(***************************************************************************)
BlackFemalePredict ==
    << << Dec4(171141), "ln_age" >>,
       << Dec4(9396), "ln_total_chol" >>,
       << -Dec4(189196), "ln_hdl" >>,
       << Dec4(44748), "age_hdl" >>,
       << Dec4(292907), "tr_ln_sbp" >>,
       << -Dec4(64321), "age_tr_sbp" >>,
       << Dec4(278197), "nt_ln_sbp" >>,
       << -Dec4(60873), "age_nt_sbp" >>,
       << Dec4(6908), "smoker" >>,
       << Dec4(8738), "diabetic" >> >>

NonBlackFemalePredict ==
    << << -Dec3(29799), "ln_age" >>,
       << Dec3(4884), "ln_age**2" >>,
       << Dec2(1354), "ln_total_chol" >>,
       << -Dec3(3114), "age_total_chol" >>,
       << -Dec3(13578), "ln_hdl" >>,
       << Dec3(3149), "age_hdl" >>,
       << Dec3(2019), "tr_ln_sbp" >>,
       << Dec3(1957), "nt_ln_sbp" >>,
       << Dec3(7574), "smoker" >>,
       << -Dec3(1665), "age_smoke" >>,
       << Dec3(661), "diabetic" >> >>

BlackMalePredict ==
    << << Dec3(2469), "ln_age" >>,
       << Dec3(302), "ln_total_chol" >>,
       << -Dec3(307), "ln_hdl" >>,
       << Dec3(1916), "tr_ln_sbp" >>,
       << Dec3(1809), "nt_ln_sbp" >>,
       << Dec3(549), "smoker" >>,
       << Dec3(645), "diabetic" >> >>

\* faulty variant of NonBlackMalePredict: the age_smoke summand dropped
NonBlackMaleNoAgeSmoke ==
    << << Dec3(12344), "ln_age" >>,
       << Dec3(11853), "ln_total_chol" >>,
       << -Dec3(2664), "age_total_chol" >>,
       << -Dec2(799), "ln_hdl" >>,
       << Dec3(1769), "age_hdl" >>,
       << Dec3(1797), "tr_ln_sbp" >>,
       << Dec3(1764), "nt_ln_sbp" >>,
       << Dec3(7837), "smoker" >>,
       << Dec3(658), "diabetic" >> >>

NonBlackMalePredict ==
    << << Dec3(12344), "ln_age" >>,
       << Dec3(11853), "ln_total_chol" >>,
       << -Dec3(2664), "age_total_chol" >>,
       << -Dec2(799), "ln_hdl" >>,
       << Dec3(1769), "age_hdl" >>,
       << Dec3(1797), "tr_ln_sbp" >>,
       << Dec3(1764), "nt_ln_sbp" >>,
       << Dec3(7837), "smoker" >>,
       << -Dec3(1795), "age_smoke" >>,
       << Dec3(658), "diabetic" >> >>

\* faulty variant of Branch: the second test reduced to "not is_black"
BranchLooseElif(in) ==
    IF in.is_black /\ ~in.is_male
    THEN [ s010 |-> Dec5(95334), mnxb |-> Dec4(866081),
           terms |-> BlackFemalePredict ]
    ELSE IF ~in.is_black
    THEN [ s010 |-> Dec5(96652), mnxb |-> -Dec4(291817),
           terms |-> NonBlackFemalePredict ]
    ELSE IF in.is_black /\ in.is_male
    THEN [ s010 |-> Dec5(89536), mnxb |-> Dec4(195425),
           terms |-> BlackMalePredict ]
    ELSE [ s010 |-> Dec5(91436), mnxb |-> Dec4(611816),
           terms |-> NonBlackMalePredict ]

\* faulty variant of Branch: the tests on is_male inverted
BranchSexInverted(in) ==
    IF in.is_black /\ in.is_male
    THEN [ s010 |-> Dec5(95334), mnxb |-> Dec4(866081),
           terms |-> BlackFemalePredict ]
    ELSE IF ~in.is_black /\ in.is_male
    THEN [ s010 |-> Dec5(96652), mnxb |-> -Dec4(291817),
           terms |-> NonBlackFemalePredict ]
    ELSE IF in.is_black /\ ~in.is_male
    THEN [ s010 |-> Dec5(89536), mnxb |-> Dec4(195425),
           terms |-> BlackMalePredict ]
    ELSE [ s010 |-> Dec5(91436), mnxb |-> Dec4(611816),
           terms |-> NonBlackMalePredict ]

\* the branch taken: its s010, mnxb and predictor
Branch(in) ==
    IF in.is_black /\ ~in.is_male
    THEN [ s010 |-> Dec5(95334), mnxb |-> Dec4(866081),
           terms |-> BlackFemalePredict ]
    ELSE IF ~in.is_black /\ ~in.is_male
    THEN [ s010 |-> Dec5(96652), mnxb |-> -Dec4(291817),
           terms |-> NonBlackFemalePredict ]
    ELSE IF in.is_black /\ in.is_male
    THEN [ s010 |-> Dec5(89536), mnxb |-> Dec4(195425),
           terms |-> BlackMalePredict ]
    ELSE [ s010 |-> Dec5(91436), mnxb |-> Dec4(611816),
           terms |-> NonBlackMalePredict ]

\* the value of a summand's factor
Factor(name, in, l) ==
    CASE name = "ln_age**2" -> MulFix(l.ln_age, l.ln_age)
      [] name = "smoker" -> IF in.smoker THEN ONE ELSE 0
      [] name = "diabetic" -> IF in.diabetic THEN ONE ELSE 0
      [] OTHER -> l[name]

\* predict: the sum of the summands from the k-th on
RECURSIVE SumFrom(_, _, _, _)
SumFrom(terms, k, in, l) ==
    IF k > Len(terms) THEN 0
    ELSE MulFix(terms[k][1], Factor(terms[k][2], in, l))
         + SumFrom(terms, k + 1, in, l)

Predict(terms, in, l) == SumFrom(terms, 1, in, l)

(***************************************************************************)
(* Calculate risk percentage (lines 122-124)                               *)
(***************************************************************************)
EXPMAX == 709782712         \* math.exp raises OverflowError above 709.782712

ExpDefined(x) == x <= EXPMAX

\* faulty variant of Risk: the operands of the subtraction exchanged
RiskNegated(s010, mnxb, predict) == Pow(s010, Exp(predict - mnxb)) - ONE

\* risk = 1 - s010**math.exp(predict - mnxb)
Risk(s010, mnxb, predict) == ONE - Pow(s010, Exp(predict - mnxb))

\* round(risk * 1000): the returned percentage in tenths of a percent
Tenths(risk) == Round(risk * 1000)

(***************************************************************************)
(* The function as a whole: what a call with this input ends in            *)
(***************************************************************************)
Rejected(detail) == [ status |-> 400, detail |-> detail, ascvd_risk |-> 0 ]

Crashed == [ status |-> 500, detail |-> NoDetail, ascvd_risk |-> 0 ]

Returned(result) == [ status |-> 200, detail |-> NoDetail, ascvd_risk |-> result ]

CalcRisk(in) ==
    IF ValidationDetail(in) # NoDetail THEN Rejected(ValidationDetail(in))
    ELSE IF ~LogDefined(in) THEN Crashed
    ELSE LET l == Logs(in)
             b == Branch(in)
             predict == Predict(b.terms, in, l)
         IN  IF ~ExpDefined(predict - b.mnxb) THEN Crashed
             ELSE Returned(Tenths(Risk(b.s010, b.mnxb, predict)))

(***************************************************************************)
(* State: one frame per call                                               *)
(***************************************************************************)
VARIABLES calls

vars == << calls >>

Slots == 1..NumCalls

\* a call not yet made
IdleFrame ==
    [ pc |-> "idle", input |-> NoInput, logs |-> NoLogs, s010 |-> 0,
      mnxb |-> 0, terms |-> << >>, predict |-> 0, risk |-> 0,
      response |-> [ status |-> 0, detail |-> NoDetail, ascvd_risk |-> 0 ] ]

Init == calls = [ i \in Slots |-> IdleFrame ]

\* calculate_risk: the route receives a request, one of the set requests,
\* and calls the function
Call(i, requests) ==
    /\ calls[i].pc = "idle"
    /\ \E in \in requests :
           calls' = [calls EXCEPT ![i].pc = "validate", ![i].input = in]

\* the six range checks; a failed check raises HTTPException(400)
Validate(i) ==
    /\ calls[i].pc = "validate"
    /\ LET d == ValidationDetail(calls[i].input)
       IN  IF d # NoDetail
           THEN calls' = [calls EXCEPT ![i].pc = "done",
                                       ![i].response = Rejected(d)]
           ELSE calls' = [calls EXCEPT ![i].pc = "transform"]

\* faulty variant of Transform: the locals kept in module-level variables,
\* which a call between its transform and its branch shares with the others
TransformShared(i) ==
    /\ calls[i].pc = "transform"
    /\ calls' = [ j \in Slots |->
                    IF j = i
                    THEN [calls[i] EXCEPT !.pc = "select",
                                          !.logs = Logs(calls[i].input)]
                    ELSE IF calls[j].pc = "select"
                    THEN [calls[j] EXCEPT !.logs = Logs(calls[i].input)]
                    ELSE calls[j] ]

\* the logarithms and their products
Transform(i) ==
    /\ calls[i].pc = "transform"
    /\ IF LogDefined(calls[i].input)
       THEN calls' = [calls EXCEPT ![i].pc = "select",
                                   ![i].logs = Logs(calls[i].input)]
       ELSE calls' = [calls EXCEPT ![i].pc = "done", ![i].response = Crashed]

\* the branch on race and sex: s010, mnxb and predict
Select(i) ==
    /\ calls[i].pc = "select"
    /\ LET b == Branch(calls[i].input)
       IN  calls' = [calls EXCEPT
                       ![i].pc = "output",
                       ![i].s010 = b.s010,
                       ![i].mnxb = b.mnxb,
                       ![i].terms = b.terms,
                       ![i].predict = Predict(b.terms, calls[i].input,
                                              calls[i].logs)]

\* risk, its rounding, and the route's response {"ascvd_risk": result}
Output(i) ==
    /\ calls[i].pc = "output"
    /\ IF ExpDefined(calls[i].predict - calls[i].mnxb)
       THEN LET risk == Risk(calls[i].s010, calls[i].mnxb, calls[i].predict)
            IN  calls' = [calls EXCEPT ![i].pc = "done",
                                       ![i].risk = risk,
                                       ![i].response = Returned(Tenths(risk))]
       ELSE calls' = [calls EXCEPT ![i].pc = "done", ![i].response = Crashed]

\* one request at a time, drawn from the sampled input space
Next ==
    \/ Call(1, Inputs)
    \/ Validate(1)
    \/ Transform(1)
    \/ Select(1)
    \/ Output(1)

Spec == Init /\ [][Next]_vars

\* one request at a time, drawn from the sampled inputs that pass validation
NextRisk ==
    \/ Call(1, RiskInputs)
    \/ Validate(1)
    \/ Transform(1)
    \/ Select(1)
    \/ Output(1)

SpecRisk == Init /\ [][NextRisk]_vars

\* NumCalls requests served concurrently, their steps interleaved
NextConc ==
    \E i \in Slots :
        \/ Call(i, ConcInputs)
        \/ Validate(i)
        \/ Transform(i)
        \/ Select(i)
        \/ Output(i)

SpecConc == Init /\ [][NextConc]_vars

(***************************************************************************)
(* Vocabulary of the properties                                            *)
(***************************************************************************)
FieldOrder ==
    << "age", "systolic_bp", "diastolic_bp", "total_cholesterol", "hdl", "ldl" >>

\* the documented inclusive range of each field
FieldRange ==
    [ age |-> << 40, 79 >>, systolic_bp |-> << 90, 200 >>,
      diastolic_bp |-> << 60, 130 >>, total_cholesterol |-> << 130, 320 >>,
      hdl |-> << 20, 100 >>, ldl |-> << 30, 300 >> ]

\* the words by which a message names a field
FieldName ==
    [ age |-> << "Age" >>, systolic_bp |-> << "Systolic", "BP" >>,
      diastolic_bp |-> << "Diastolic", "BP" >>,
      total_cholesterol |-> << "Total", "cholesterol" >>,
      hdl |-> << "HDL" >>, ldl |-> << "LDL" >> ]

OutOfRange(in, f) == in[f] < FieldRange[f][1] \/ in[f] > FieldRange[f][2]

\* the positions in FieldOrder of the fields in violation
Violations(in) == { k \in 1..Len(FieldOrder) : OutOfRange(in, FieldOrder[k]) }

FirstViolation(in) ==
    CHOOSE k \in Violations(in) : \A j \in Violations(in) : k <= j

NamesField(detail, f) ==
    /\ Len(detail) >= Len(FieldName[f])
    /\ SubSeq(detail, 1, Len(FieldName[f])) = FieldName[f]

Mentions(detail, n) == \E k \in DOMAIN detail : detail[k] = ToString(n)

MentionsRange(detail, f) ==
    Mentions(detail, FieldRange[f][1]) /\ Mentions(detail, FieldRange[f][2])

Finished(i) == calls[i].pc = "done"

Rejects(i) == Finished(i) /\ calls[i].response.status = 400

Returns(i) == Finished(i) /\ calls[i].response.status = 200

\* the call has taken its branch: s010, mnxb and predict are set
Branched(i) == calls[i].pc = "output" \/ Returns(i)

\* the call has computed its logarithms
Transformed(i) == calls[i].pc = "select" \/ Branched(i)

HasTerm(terms, name) == \E k \in DOMAIN terms : terms[k][2] = name

(***************************************************************************)
(* C1: a call is rejected with status 400 if and only if at least one of   *)
(* the six fields lies outside its inclusive range; a call whose six       *)
(* fields are all in range (the exact minima and maxima included) never    *)
(* ends in an error: it ends with status 200 and a risk value.             *)
(***************************************************************************)
C1_RejectedIffOutOfRange ==
    \A i \in Slots :
        Finished(i) =>
            /\ Rejects(i) <=> Violations(calls[i].input) # {}
            /\ Returns(i) <=> Violations(calls[i].input) = {}

\* a call with every field exactly on a bound of its range has returned
C1_Witness ==
    /\ Returns(1)
    /\ calls[1].input.age = 40 /\ calls[1].input.systolic_bp = 200
    /\ calls[1].input.diastolic_bp = 60 /\ calls[1].input.ldl = 300
    /\ calls[1].input.total_cholesterol = 130 /\ calls[1].input.hdl = 100

(***************************************************************************)
(* C2 as claimed: the message of a validation error names the offending    *)
(* field, the out-of-range value that was supplied, and the field's valid  *)
(* range.                                                                  *)
(***************************************************************************)
C2_DetailNamesFieldValueRange ==
    \A i \in Slots :
        Rejects(i) =>
            \E k \in Violations(calls[i].input) :
                LET f == FieldOrder[k]
                    detail == calls[i].response.detail
                IN  /\ NamesField(detail, f)
                    /\ MentionsRange(detail, f)
                    /\ Mentions(detail, calls[i].input[f])

(***************************************************************************)
(* C2 as amended: the message of a validation error names an offending     *)
(* field and that field's valid range, and nothing else about the input:   *)
(* it does not contain the value that was supplied for the field.          *)
(***************************************************************************)
C2_DetailNamesFieldAndRange ==
    \A i \in Slots :
        Rejects(i) =>
            \E k \in Violations(calls[i].input) :
                LET f == FieldOrder[k]
                    detail == calls[i].response.detail
                IN  /\ NamesField(detail, f)
                    /\ MentionsRange(detail, f)
                    /\ ~Mentions(detail, calls[i].input[f])

\* hdl 101 has been rejected, all other fields in range
C2_Witness ==
    /\ Rejects(1)
    /\ calls[1].input.hdl = 101
    /\ Violations(calls[1].input) = { 5 }

(***************************************************************************)
(* C3: when several fields are out of range, the error surfaced is the one *)
(* for the first violating field in the order age, systolic_bp,            *)
(* diastolic_bp, total_cholesterol, hdl, ldl.                              *)
(***************************************************************************)
C3_FirstViolationReported ==
    \A i \in Slots :
        Rejects(i) =>
            /\ Violations(calls[i].input) # {}
            /\ NamesField(calls[i].response.detail,
                          FieldOrder[FirstViolation(calls[i].input)])

\* a rejected call with hdl and ldl both out of range and the rest in range
C3_Witness ==
    /\ Rejects(1)
    /\ Violations(calls[1].input) = { 5, 6 }

(***************************************************************************)
(* C4: two inputs that pass validation and differ only in diastolic_bp     *)
(* and/or ldl get the same risk value.  Stated against a reference: every  *)
(* input that passes validation gets the risk of the input that differs    *)
(* from it only in having diastolic_bp and ldl at their minima, so any two *)
(* inputs with the same reference get the same risk.                       *)
(***************************************************************************)
C4_DbpLdlWithoutInfluence ==
    \A i \in Slots :
        Returns(i) =>
            LET other == [calls[i].input EXCEPT !.diastolic_bp = 60, !.ldl = 30]
            IN  CalcRisk(other) = calls[i].response

\* a call has returned whose diastolic_bp and ldl are at their maxima, so
\* that the input it is compared with differs from it in both fields
C4_Witness ==
    /\ Returns(1)
    /\ calls[1].input.diastolic_bp = 130
    /\ calls[1].input.ldl = 300

(***************************************************************************)
(* C5: the outcome of a call is a function of its own input: however the   *)
(* steps of concurrent calls interleave, two calls with identical input    *)
(* end in the identical outcome, and a step of one call changes no other   *)
(* call's frame.                                                           *)
(***************************************************************************)
C5_OutcomeOfOwnInputOnly ==
    /\ [](\A i, j \in Slots :
             Finished(i) /\ Finished(j) /\ calls[i].input = calls[j].input
                 => calls[i].response = calls[j].response)
    /\ [][\A i, j \in Slots :
             calls'[i] # calls[i] /\ j # i => calls'[j] = calls[j]]_vars

\* two calls with the same valid input and a third with another input have
\* all finished
C5_Witness ==
    /\ Returns(1) /\ Returns(2) /\ Returns(3)
    /\ calls[1].input = calls[2].input
    /\ calls[3].input # calls[1].input

(***************************************************************************)
(* C6 as claimed: the value returned is a percentage with one decimal      *)
(* that is at least 0 and strictly less than 100.                          *)
(***************************************************************************)
C6_RiskBelow100 ==
    \A i \in Slots :
        Returns(i) =>
            0 <= calls[i].response.ascvd_risk /\ calls[i].response.ascvd_risk < 1000

(***************************************************************************)
(* C6 as amended: the value returned is a percentage with one decimal      *)
(* that is at least 0 and at most 100; the rounding step can return        *)
(* exactly 100.0.                                                          *)
(***************************************************************************)
C6_RiskAtMost100 ==
    \A i \in Slots :
        Returns(i) =>
            0 <= calls[i].response.ascvd_risk /\ calls[i].response.ascvd_risk <= 1000

\* a call has returned 100.0
C6_Witness == Returns(1) /\ calls[1].response.ascvd_risk = 1000

(***************************************************************************)
(* C7 as claimed: the two female subgroups each include a squared ln(age)  *)
(* term and an age-smoke interaction term in their predictor, and the two  *)
(* male subgroups each omit both.                                          *)
(***************************************************************************)
C7_FemaleExtraTerms ==
    \A i \in Slots :
        Branched(i) =>
            /\ HasTerm(calls[i].terms, "ln_age**2") <=> ~calls[i].input.is_male
            /\ HasTerm(calls[i].terms, "age_smoke") <=> ~calls[i].input.is_male

(***************************************************************************)
(* C7 as amended: only the non-black female subgroup includes a squared    *)
(* ln(age) term; the age-smoke interaction term is included by the two     *)
(* non-black subgroups (female and male); the two black subgroups (female  *)
(* and male) omit both terms.                                              *)
(***************************************************************************)
C7_NonBlackExtraTerms ==
    \A i \in Slots :
        Branched(i) =>
            /\ HasTerm(calls[i].terms, "ln_age**2")
                   <=> ~calls[i].input.is_black /\ ~calls[i].input.is_male
            /\ HasTerm(calls[i].terms, "age_smoke") <=> ~calls[i].input.is_black

\* a non-black male smoker's call has taken its branch, with the age-smoke term
C7_Witness ==
    /\ Branched(1)
    /\ calls[1].input.is_male /\ ~calls[1].input.is_black /\ calls[1].input.smoker
    /\ HasTerm(calls[1].terms, "age_smoke")

(***************************************************************************)
(* C8: each combination of (is_black, is_male) selects exactly one         *)
(* coefficient set, the documented one, and the predictor used is the one  *)
(* of the same branch.                                                     *)
(***************************************************************************)
SubgroupTable ==
    { << TRUE, FALSE, Dec5(95334), Dec4(866081), BlackFemalePredict >>,
      << FALSE, FALSE, Dec5(96652), -Dec4(291817), NonBlackFemalePredict >>,
      << TRUE, TRUE, Dec5(89536), Dec4(195425), BlackMalePredict >>,
      << FALSE, TRUE, Dec5(91436), Dec4(611816), NonBlackMalePredict >> }

C8_DocumentedSubgroup ==
    \A i \in Slots :
        Branched(i) =>
            /\ << calls[i].input.is_black, calls[i].input.is_male, calls[i].s010,
                  calls[i].mnxb, calls[i].terms >> \in SubgroupTable
            /\ calls[i].predict
                   = Predict(calls[i].terms, calls[i].input, calls[i].logs)

\* a black male's call has taken its branch
C8_Witness ==
    /\ Branched(1)
    /\ calls[1].input.is_black /\ calls[1].input.is_male
    /\ calls[1].s010 = Dec5(89536)

(***************************************************************************)
(* C9: for an input that passes validation exactly one of tr_ln_sbp and    *)
(* nt_ln_sbp is non-zero, tr_ln_sbp when hypertensive and nt_ln_sbp        *)
(* otherwise; the same holds of age_tr_sbp and age_nt_sbp.                 *)
(***************************************************************************)
C9_OneSbpTerm ==
    \A i \in Slots :
        Transformed(i) =>
            LET l == calls[i].logs
            IN  IF calls[i].input.hypertensive
                THEN /\ l.tr_ln_sbp # 0 /\ l.nt_ln_sbp = 0
                     /\ l.age_tr_sbp # 0 /\ l.age_nt_sbp = 0
                ELSE /\ l.tr_ln_sbp = 0 /\ l.nt_ln_sbp # 0
                     /\ l.age_tr_sbp = 0 /\ l.age_nt_sbp # 0

\* a hypertensive patient's logarithms have been computed
C9_Witness ==
    /\ calls[1].pc = "select"
    /\ calls[1].input.hypertensive
    /\ calls[1].logs.tr_ln_sbp # 0

(***************************************************************************)
(* C10 as claimed: for every subgroup, of two valid inputs that differ     *)
(* only in age the older one does not get the lower risk.                  *)
(***************************************************************************)
OlderRisk(i, a) == CalcRisk([calls[i].input EXCEPT !.age = a]).ascvd_risk

C10_RiskMonotoneInAge ==
    \A i \in Slots :
        Returns(i) =>
            \A a \in Grid(AgeMin, AgeMax) :
                a > calls[i].input.age =>
                    OlderRisk(i, a) >= calls[i].response.ascvd_risk

(***************************************************************************)
(* C10 as amended: for the two male subgroups, of two valid inputs that    *)
(* differ only in age the older one does not get the lower risk; for the   *)
(* two female subgroups the older one can get the lower risk.              *)
(***************************************************************************)
C10_MaleRiskMonotoneInAge ==
    \A i \in Slots :
        Returns(i) /\ calls[i].input.is_male =>
            \A a \in Grid(AgeMin, AgeMax) :
                a > calls[i].input.age =>
                    OlderRisk(i, a) >= calls[i].response.ascvd_risk

\* a male patient of the minimum age has got a risk, and the same patient
\* at the maximum age gets a higher one
C10_Witness ==
    /\ Returns(1)
    /\ calls[1].input.is_male
    /\ calls[1].input.age = 40
    /\ OlderRisk(1, 79) > calls[1].response.ascvd_risk

=============================================================================
